---- MODULE Spec2Model ----
(***************************************************************************)
(* Model of the EndoMatch API server (src/api_server.py) and of the ETL    *)
(* job that fetches the trials and builds the index (src/etl.py).          *)
(*                                                                         *)
(* Server: the startup hook load_resources, the /match handler with its    *)
(* for loop over the retrieved documents, and the tenacity retry wrapper   *)
(* around llm.invoke.  A step of the model is the code between two         *)
(* blocking points (a call to the reasoning service, a backoff sleep).     *)
(* Strings built by f-strings are sequences of tokens.                     *)
(***************************************************************************)
EXTENDS Integers, Sequences, FiniteSets, TLC

VARIABLES
    phase,      \* "boot" | "idle" | "auditing" | "responded": position of the server
    vector_db,  \* global vector_db: None, or the loaded index (a set of documents)
    summary,    \* patient.summary of the request being served
    docs,       \* local docs of match_trials: the retrieved documents, in rank order
    audit,      \* per retrieved document: the state of its loop iteration
    results,    \* local results of match_trials
    last,       \* per retrieved document: how its latest call of llm.invoke ended
    retrieved,  \* whether retrieve_trials was called for this request
    response,   \* the HTTP response of the request, once it is sent
    etl_pc,     \* position of fetch_trials
    http,       \* what requests.get / raise_for_status / json() deliver
    trials,     \* local trials of fetch_trials
    study_i,    \* index of the study the loop of fetch_trials is at
    etl_ret,    \* what fetch_trials returned (or that it raised)
    saved_index \* the index build_vector_database saved to disk, if it did

vars == <<phase, vector_db, summary, docs, audit, results, last, retrieved,
          response, etl_pc, http, trials, study_i, etl_ret, saved_index>>

serverVars == <<phase, vector_db, summary, docs, audit, results, last,
                retrieved, response>>

etlVars == <<etl_pc, http, trials, study_i, etl_ret, saved_index>>

(***************************************************************************)
(* Bounds of the model and constants of the program.                       *)
(***************************************************************************)
MaxIndexSize == 6

MaxStudies == 3

K == 3

MaxAttempts == 5

WaitMultiplier == 1

WaitMin == 2

WaitMax == 10

ExpBase == 2

None == "None"

(***************************************************************************)
(* Documents.  A document is named by a number; Metadata gives the         *)
(* metadata dictionary stored with it.  Python values are written as       *)
(* strings ("True" is the bool True, "1" the int 1).  Document 2 has the   *)
(* metadata build_vector_database writes.  The n-th document of the index  *)
(* build_vector_database saved is named -n.                                *)
(***************************************************************************)
Metadata(d) ==
    IF d < 0 THEN saved_index.documents[0 - d].metadata ELSE
    CASE d = 1 -> [nct_id |-> "NCT001", title |-> "T1", phase |-> "PHASE2",
                   url |-> "u1", is_us_trial |-> "True"]
      [] d = 2 -> [nct_id |-> "NCT002", title |-> "T2"]
      [] d = 3 -> [title |-> "T3", is_us_trial |-> "True"]
      [] d = 4 -> [nct_id |-> "NCT004", title |-> "T4", is_us_trial |-> "1"]
      [] d = 5 -> [nct_id |-> "NCT005", title |-> "T5", phase |-> "PHASE3",
                   is_us_trial |-> "True"]
      [] d = 6 -> [nct_id |-> "NCT006", title |-> "T6", url |-> "u6",
                   is_us_trial |-> "True"]
      [] OTHER -> [nct_id |-> "NCT00X", title |-> "TX", is_us_trial |-> "False"]

\* dict.get(key, default)
Get(md, key, default) == IF key \in DOMAIN md THEN md[key] ELSE default

Summaries == {"q1", "q2"}

RECURSIVE Ascending(_)
Ascending(S) ==
    IF S = {} THEN <<>>
    ELSE LET m == CHOOSE x \in S : \A y \in S : x <= y
         IN  <<m>> \o Ascending(S \ {m})

Reverse(s) == [i \in 1..Len(s) |-> s[Len(s) + 1 - i]]

\* The index's ranking of its documents for a query: the embedding distance
\* is outside the program, so two queries stand for two different rankings.
Rank(query, index) ==
    IF query = "q1" THEN Ascending(index) ELSE Reverse(Ascending(index))

Range(s) == {s[i] : i \in DOMAIN s}

Take(s, n) == IF Len(s) <= n THEN s ELSE SubSeq(s, 1, n)

UsFilterMissingIsTrue(md) == Get(md, "is_us_trial", "True") = "True"

\* the filter lambda of retrieve_trials: metadata.get("is_us_trial") is True
UsFilter(md) == Get(md, "is_us_trial", None) = "True"

SimilaritySearch(index, query, k) ==
    Take(SelectSeq(Rank(query, index), LAMBDA d : UsFilter(Metadata(d))), k)

\* the global vector_db: None, or the FAISS object holding an index
NoDb == [loaded |-> FALSE, index |-> {}]

Db(index) == [loaded |-> TRUE, index |-> index]

StoreAlwaysThere(db) == FALSE

\* `not vector_db`
StoreUnavailable(db) == ~db.loaded

retrieve_trials(query, k) ==
    IF StoreUnavailable(vector_db) THEN <<>>
    ELSE SimilaritySearch(vector_db.index, query, k)

(***************************************************************************)
(* The reasoning service and the retry policy.                             *)
(***************************************************************************)
Contents == {"YES", "NO"}

\* What llm.invoke can raise: ClientError is the 4xx class of the service
\* (429 rate limit or quota, 400 bad request), ChatGoogleGenerativeAIError the
\* wrapper's own error, Exception any other exception.
ErrorKinds == {"ClientError429", "ClientError400",
               "ChatGoogleGenerativeAIError", "Exception"}

IsClientError(e) == e \in {"ClientError429", "ClientError400"}

IsTransient(e) == e = "ClientError429"

IsPermanent(e) == e = "ClientError400"

\* retry_if_exception_type((ClientError, ChatGoogleGenerativeAIError))
RetryIf(e) == IsClientError(e) \/ e = "ChatGoogleGenerativeAIError"

StopOneLate(attempt) == attempt > MaxAttempts

\* stop_after_attempt(5)
StopAfterAttempt(attempt) == attempt >= MaxAttempts

RECURSIVE Pow(_, _)
Pow(b, n) == IF n = 0 THEN 1 ELSE b * Pow(b, n - 1)

Max2(a, b) == IF a >= b THEN a ELSE b

Min2(a, b) == IF a <= b THEN a ELSE b

WaitWithoutMin(attempt) ==
    Min2(WaitMultiplier * Pow(ExpBase, attempt - 1), WaitMax)

\* wait_exponential(multiplier=1, min=2, max=10), after the attempt-th failure
WaitExponential(attempt) ==
    Max2(Max2(0, WaitMin),
         Min2(WaitMultiplier * Pow(ExpBase, attempt - 1), WaitMax))

\* str(e) of what reaches the except clause of match_trials
StrRetryError(e) == <<"RetryError[", e, "]">>

StrException(e) == <<e>>

ErrorMarker == "AI Error: "

ErrorWithoutMarker(desc) == desc

\* f"... AI Error: {str(e)}"
ErrorAnalysis(desc) == <<ErrorMarker>> \o desc

NctIdEmptyDefault(md) == Get(md, "nct_id", "")

\* doc.metadata.get('nct_id', 'N/A')
NctIdOf(md) == Get(md, "nct_id", "N/A")

Entry(d, analysis) ==
    [nct_id   |-> NctIdOf(Metadata(d)),
     title    |-> Get(Metadata(d), "title", "Untitled"),
     phase    |-> Get(Metadata(d), "phase", "N/A"),
     url      |-> Get(Metadata(d), "url", "#"),
     analysis |-> analysis]

InsertFirst(rs, e) == <<e>> \o rs

AppendUnlessFailed(rs, e) ==
    IF Head(e.analysis) = ErrorMarker THEN rs ELSE Append(rs, e)

\* results.append(...)
AppendResult(rs, e) == Append(rs, e)

\* st: where the iteration is; attempt: the calls of llm.invoke issued so far;
\* allTransient: every call so far has failed, with a transient error;
\* waits: the sleeps tenacity has asked for
Pending == [st |-> "pending", attempt |-> 0, allTransient |-> TRUE,
            waits |-> <<>>]

\* how a call of llm.invoke ended: not yet, with a response, with an exception
InFlight == <<"none", None>>

Returned(c) == <<"returned", c>>

Raised(e) == <<"raised", e>>

AnyTurn(i) == TRUE

\* the for loop: the iteration of docs[i] begins when those before it ended
LoopTurn(i) == \A j \in 1..(i - 1) : audit[j].st = "done"

LoopExhausted(a) == \A j \in 1..Len(a) : a[j].st = "done"

Ok(matches) == [status |-> 200, body |-> [matches |-> matches]]

HttpError(code, detail) == [status |-> code, body |-> [detail |-> detail]]

NoResponse == [status |-> 0, body |-> [none |-> TRUE]]

(***************************************************************************)
(* The server.                                                             *)
(***************************************************************************)
\* the indexes on disk: the first n documents, for every n up to the bound
IndexChoices == {1..n : n \in 0..MaxIndexSize}

ServerInit ==
    /\ phase = "boot"
    /\ vector_db = NoDb
    /\ summary = None
    /\ docs = <<>>
    /\ audit = <<>>
    /\ results = <<>>
    /\ last = <<>>
    /\ retrieved = FALSE
    /\ response = NoResponse

\* no index saved by build_vector_database
NotSaved == [saved |-> FALSE, documents |-> <<>>]

\* the names of the documents of the index build_vector_database saved
BuiltIds == {0 - n : n \in 1..Len(saved_index.documents)}

\* load_resources: FAISS.load_local either loads the index on disk or raises,
\* and the bare except leaves vector_db None.  The index on disk is the one
\* build_vector_database saved, or, when the job saved none, any index or
\* none.  The server is started while the job is not running.
LoadResources ==
    /\ phase = "boot"
    /\ etl_pc = "idle"
    /\ IF saved_index.saved
       THEN vector_db' = Db(BuiltIds)
       ELSE \/ \E disk \in IndexChoices : vector_db' = Db(disk)
            \/ vector_db' = NoDb
    /\ phase' = "idle"
    /\ UNCHANGED <<summary, docs, audit, results, last, retrieved, response>>
    /\ UNCHANGED etlVars

\* match_trials up to the first call of the reasoning service
MatchTrials ==
    /\ phase = "idle"
    /\ \E s \in Summaries :
        /\ summary' = s
        /\ IF StoreUnavailable(vector_db)
           THEN /\ response' = HttpError(500, "Database not loaded")
                /\ phase' = "responded"
                /\ UNCHANGED <<docs, audit, results, last, retrieved>>
           ELSE LET ds == retrieve_trials(s, K) IN
                /\ docs' = ds
                /\ retrieved' = TRUE
                /\ audit' = [i \in 1..Len(ds) |-> Pending]
                /\ last' = [i \in 1..Len(ds) |-> InFlight]
                /\ results' = <<>>
                /\ IF Len(ds) = 0
                   THEN /\ response' = Ok(<<>>)
                        /\ phase' = "responded"
                   ELSE /\ response' = NoResponse
                        /\ phase' = "auditing"
    /\ UNCHANGED vector_db
    /\ UNCHANGED etlVars

\* the iteration of docs[i] builds the prompt and calls generate_audit_sync:
\* the first attempt of llm.invoke is issued
BeginAudit(i) ==
    /\ phase = "auditing"
    /\ i \in 1..Len(docs)
    /\ audit[i].st = "pending"
    /\ LoopTurn(i)
    /\ audit' = [audit EXCEPT ![i].st = "calling", ![i].attempt = 1]
    /\ UNCHANGED <<phase, vector_db, summary, docs, results, last, retrieved,
                   response>>
    /\ UNCHANGED etlVars

\* the iteration of docs[i] ends with analysis: the entry is appended, and
\* after the last iteration the handler returns
EndIteration(i, analysis, a2) ==
    LET rs == AppendResult(results, Entry(docs[i], analysis)) IN
    /\ results' = rs
    /\ audit' = a2
    /\ IF LoopExhausted(a2)
       THEN /\ response' = Ok(rs)
            /\ phase' = "responded"
       ELSE /\ UNCHANGED <<response, phase>>

\* llm.invoke returns: response.content is the analysis
CallReturns(i) ==
    /\ phase = "auditing"
    /\ i \in 1..Len(docs)
    /\ audit[i].st = "calling"
    /\ \E c \in Contents :
        /\ last' = [last EXCEPT ![i] = Returned(c)]
        /\ EndIteration(i, <<c>>, [audit EXCEPT ![i].st = "done",
                                                ![i].allTransient = FALSE])
    /\ UNCHANGED <<vector_db, summary, docs, retrieved>>
    /\ UNCHANGED etlVars

\* llm.invoke raises e: tenacity sleeps and retries, or raises RetryError, or
\* lets e through; the except clause of match_trials turns what is raised into
\* the analysis
CallRaises(i) ==
    /\ phase = "auditing"
    /\ i \in 1..Len(docs)
    /\ audit[i].st = "calling"
    /\ \E e \in ErrorKinds :
        LET seen == [audit EXCEPT ![i].allTransient = @ /\ IsTransient(e)]
        IN
        /\ last' = [last EXCEPT ![i] = Raised(e)]
        /\ IF RetryIf(e) /\ ~StopAfterAttempt(audit[i].attempt)
           THEN /\ audit' = [seen EXCEPT
                               ![i].st = "sleeping",
                               ![i].waits = Append(@, WaitExponential(audit[i].attempt))]
                /\ UNCHANGED <<results, response, phase>>
           ELSE IF RetryIf(e)
           THEN EndIteration(i, ErrorAnalysis(StrRetryError(e)),
                             [seen EXCEPT ![i].st = "done"])
           ELSE EndIteration(i, ErrorAnalysis(StrException(e)),
                             [seen EXCEPT ![i].st = "done"])
    /\ UNCHANGED <<vector_db, summary, docs, retrieved>>
    /\ UNCHANGED etlVars

\* the backoff sleep ends and the next attempt of llm.invoke is issued
Wake(i) ==
    /\ phase = "auditing"
    /\ i \in 1..Len(docs)
    /\ audit[i].st = "sleeping"
    /\ audit' = [audit EXCEPT ![i].st = "calling", ![i].attempt = @ + 1]
    /\ last' = [last EXCEPT ![i] = InFlight]
    /\ UNCHANGED <<phase, vector_db, summary, docs, results, retrieved,
                   response>>
    /\ UNCHANGED etlVars

\* the response is sent; the server waits for the next request
NextRequest ==
    /\ phase = "responded"
    /\ phase' = "idle"
    /\ summary' = None
    /\ docs' = <<>>
    /\ audit' = <<>>
    /\ results' = <<>>
    /\ last' = <<>>
    /\ retrieved' = FALSE
    /\ response' = NoResponse
    /\ UNCHANGED vector_db
    /\ UNCHANGED etlVars

\* the ETL job is not running
EtlIdle ==
    /\ etl_pc = "idle"
    /\ http = [kind |-> "none", studies |-> <<>>]
    /\ trials = <<>>
    /\ study_i = 0
    /\ etl_ret = [kind |-> "none", value |-> <<>>]
    /\ saved_index = NotSaved

Init == ServerInit /\ EtlIdle

Next ==
    \/ LoadResources
    \/ MatchTrials
    \/ \E i \in 1..K : BeginAudit(i)
    \/ \E i \in 1..K : CallReturns(i)
    \/ \E i \in 1..K : CallRaises(i)
    \/ \E i \in 1..K : Wake(i)
    \/ NextRequest

Spec == Init /\ [][Next]_vars

(***************************************************************************)
(* fetch_trials of the ETL job.  A JSON object is a record, absent keys    *)
(* being absent fields; JNull stands for a JSON value that is not an       *)
(* object (null, a string, a number), on which .get raises AttributeError. *)
(***************************************************************************)
JNull == [json_null |-> TRUE]

IsDict(v) == "json_null" \notin DOMAIN v

EmptyDict == <<>>

Ident(nct, title) ==
    [identificationModule |-> [nctId |-> nct, briefTitle |-> title]]

Desc == [descriptionModule |-> [briefSummary |-> "A summary of the study"]]

\* the studies the API may deliver
StudyShapes ==
    { [protocolSection |-> Ident("NCT100", "Study A") @@ Desc],
      [protocolSection |-> [identificationModule |-> [briefTitle |-> "Study B"]]
                              @@ Desc],
      [protocolSection |-> [identificationModule |-> [nctId |-> "NCT300"]]
                              @@ Desc],
      [protocolSection |-> Ident("NCT400", "Study D")],
      [protocolSection |-> Ident("NCT500", "Study E")
                              @@ [descriptionModule |-> EmptyDict]],
      [hasResults |-> "false"],
      [protocolSection |-> JNull],
      [protocolSection |-> Ident("NCT800", "Study H")
                              @@ [descriptionModule |-> JNull]],
      JNull }

\* what requests.get, raise_for_status and json() deliver: an exception, or
\* the parsed body: not an object, an object without studies, with studies
\* null, or with a list of studies
HttpOutcomes ==
    {[kind |-> k, studies |-> <<>>] :
        k \in {"ConnectionError", "HTTPError", "JSONDecodeError",
               "not_object", "no_studies", "studies_null"}}
    \cup
    {[kind |-> "studies", studies |-> ss] :
        ss \in UNION {[1..n -> StudyShapes] : n \in 0..MaxStudies}}

\* the exception the try block of fetch_trials raises before its loop, if any
RequestRaises(h) ==
    CASE h.kind \in {"ConnectionError", "HTTPError", "JSONDecodeError"} -> h.kind
      [] h.kind = "not_object" -> "AttributeError"
      [] h.kind = "studies_null" -> "TypeError"
      [] OTHER -> None

\* data.get('studies', [])
StudiesOf(h) == IF h.kind = "studies" THEN h.studies ELSE <<>>

\* the body of the loop raises AttributeError when .get is called on a value
\* that is not an object
StudyRaises(study) ==
    IF ~IsDict(study) THEN TRUE
    ELSE LET protocol == Get(study, "protocolSection", EmptyDict) IN
         IF ~IsDict(protocol) THEN TRUE
         ELSE \/ ~IsDict(Get(protocol, "identificationModule", EmptyDict))
              \/ ~IsDict(Get(protocol, "descriptionModule", EmptyDict))

TrialOf(study) ==
    LET protocol == Get(study, "protocolSection", EmptyDict)
        ident == Get(protocol, "identificationModule", EmptyDict)
        desc == Get(protocol, "descriptionModule", EmptyDict)
    IN  [nct_id  |-> Get(ident, "nctId", "Unknown"),
         title   |-> Get(ident, "briefTitle", "Untitled"),
         summary |-> Get(desc, "briefSummary", "No summary available")]

\* except requests.exceptions.RequestException
IsRequestException(e) == e \in {"ConnectionError", "HTTPError", "JSONDecodeError"}

NoGenericClause(e) == FALSE

\* except Exception
IsException(e) == TRUE

NoReturn == [kind |-> "none", value |-> <<>>]

ReturnList(l) == [kind |-> "list", value |-> l]

RaisedOut(e) == [kind |-> "raised", value |-> <<e>>]

\* both except clauses return [], an exception neither catches leaves the function
OnException(e) ==
    IF IsRequestException(e) \/ IsException(e) THEN ReturnList(<<>>)
    ELSE RaisedOut(e)

EtlInit ==
    /\ ServerInit
    /\ etl_pc = "start"
    /\ http \in HttpOutcomes
    /\ trials = <<>>
    /\ study_i = 0
    /\ etl_ret = NoReturn
    /\ saved_index = NotSaved

\* requests.get, raise_for_status, json(), data.get('studies', []): up to the
\* loop, which an empty list of studies ends at once
FetchRequest ==
    /\ etl_pc = "start"
    /\ IF RequestRaises(http) # None
       THEN /\ etl_ret' = OnException(RequestRaises(http))
            /\ etl_pc' = "returned"
            /\ UNCHANGED study_i
       ELSE IF Len(StudiesOf(http)) = 0
       THEN /\ etl_ret' = ReturnList(trials)
            /\ etl_pc' = "returned"
            /\ UNCHANGED study_i
       ELSE /\ etl_pc' = "loop"
            /\ study_i' = 1
            /\ UNCHANGED etl_ret
    /\ UNCHANGED <<http, trials, saved_index>>
    /\ UNCHANGED serverVars

\* one iteration of the loop over the studies; after the last one the
\* function returns trials
FetchStudy ==
    /\ etl_pc = "loop"
    /\ LET study == StudiesOf(http)[study_i] IN
       IF StudyRaises(study)
       THEN /\ etl_ret' = OnException("AttributeError")
            /\ etl_pc' = "returned"
            /\ UNCHANGED <<trials, study_i>>
       ELSE LET ts == Append(trials, TrialOf(study)) IN
            /\ trials' = ts
            /\ IF study_i = Len(StudiesOf(http))
               THEN /\ etl_ret' = ReturnList(ts)
                    /\ etl_pc' = "returned"
                    /\ UNCHANGED study_i
               ELSE /\ study_i' = study_i + 1
                    /\ UNCHANGED <<etl_ret, etl_pc>>
    /\ UNCHANGED <<http, saved_index>>
    /\ UNCHANGED serverVars

EtlNext == FetchRequest \/ FetchStudy

\* Document(page_content=trial['summary'], metadata={nct_id, title})
DocumentOf(trial) ==
    [page_content |-> trial.summary,
     metadata |-> [nct_id |-> trial.nct_id, title |-> trial.title]]

\* main after fetch_trials returned: with no trials the job exits; otherwise
\* build_vector_database makes one Document per trial and saves the index,
\* or an exception (a missing library, the embedding model) makes it return
\* False with nothing saved.  The process then exits and its locals are gone.
BuildVectorDatabase ==
    /\ etl_pc = "returned"
    /\ IF etl_ret.kind # "list" \/ etl_ret.value = <<>>
       THEN UNCHANGED saved_index
       ELSE \/ saved_index' =
                [saved |-> TRUE,
                 documents |-> [n \in 1..Len(etl_ret.value) |->
                                  DocumentOf(etl_ret.value[n])]]
            \/ UNCHANGED saved_index
    /\ etl_pc' = "idle"
    /\ http' = [kind |-> "none", studies |-> <<>>]
    /\ trials' = <<>>
    /\ study_i' = 0
    /\ etl_ret' = NoReturn
    /\ UNCHANGED serverVars

SpecEtl == EtlInit /\ [][EtlNext]_vars


PipelineNext == EtlNext \/ BuildVectorDatabase \/ Next

\* the ETL job is run, then the server is started and serves requests
SpecPipeline == EtlInit /\ [][PipelineNext]_vars

AuditStep ==
    \E i \in 1..K : BeginAudit(i) \/ CallReturns(i) \/ CallRaises(i) \/ Wake(i)

\* Every call of the reasoning service returns or raises, every sleep ends,
\* and the handler, once running, keeps running.
FairSpec == Spec /\ WF_vars(AuditStep)

(***************************************************************************)
(* Properties.                                                             *)
(***************************************************************************)
Responded == phase = "responded"

StoreAvailable == vector_db.loaded

Matches == response.body.matches

Failed(i) == last[i][1] = "raised"

Succeeded(i) == last[i][1] = "returned"

NonDecreasing(w) == \A m \in 1..(Len(w) - 1) : w[m] <= w[m + 1]

RECURSIVE SumAttempts(_)
SumAttempts(n) == IF n = 0 THEN 0 ELSE audit[n].attempt + SumAttempts(n - 1)

\* C1: at every moment the i-th entry of results is the outcome of the i-th
\* retrieved document (its title, and the analysis its own audit ended with),
\* and the response of a request with the store available carries exactly
\* these entries in retrieval order, however long each audit took.
C1_OrderIsRetrievalRank ==
    /\ Len(results) <= Len(docs)
    /\ \A i \in 1..Len(results) :
        /\ audit[i].st = "done"
        /\ results[i].title = Get(Metadata(docs[i]), "title", "Untitled")
        /\ Succeeded(i) => results[i].analysis = <<last[i][2]>>
        /\ Failed(i) => /\ Head(results[i].analysis) = ErrorMarker
                        /\ last[i][2] \in Range(results[i].analysis)
    /\ (Responded /\ StoreAvailable) => Matches = results /\ Len(results) = Len(docs)

\* three matches were returned, the audit of the first document having taken
\* more attempts than the audit of the third
C1_Witness ==
    /\ Responded /\ StoreAvailable
    /\ Len(docs) = 3 /\ Len(Matches) = 3
    /\ audit[1].attempt > audit[3].attempt
    /\ Failed(2) /\ Succeeded(1) /\ Succeeded(3)

\* C2: a request with the store available is answered 200 with one match per
\* retrieved document and at most K matches, whatever audits failed; with no
\* candidate the answer is the empty matches array.
C2_OneOutcomePerDocument ==
    (Responded /\ StoreAvailable) =>
        /\ response.status = 200
        /\ "matches" \in DOMAIN response.body
        /\ Len(Matches) = Len(docs)
        /\ Len(Matches) <= K
        /\ docs = <<>> => Matches = <<>>

C2_Witness ==
    /\ Responded /\ StoreAvailable
    /\ Len(Matches) = K
    /\ Cardinality(vector_db.index) > K
    /\ Failed(1) /\ Succeeded(2) /\ Failed(3)

\* C3: when audits fail, the request is still answered 200; a failed
\* candidate's analysis is the error marker followed by the description of
\* the failure, every other candidate's analysis is exactly what the
\* reasoning service returned for it, and every candidate was audited.
C3_FailureIsolation ==
    (Responded /\ StoreAvailable) =>
        /\ response.status = 200
        /\ Len(Matches) = Len(docs)
        /\ \A i \in 1..Len(docs) :
            /\ audit[i].st = "done" /\ audit[i].attempt >= 1
            /\ Failed(i) \/ Succeeded(i)
            /\ Failed(i) => /\ Head(Matches[i].analysis) = ErrorMarker
                            /\ Len(Matches[i].analysis) > 1
                            /\ last[i][2] \in Range(Matches[i].analysis)
            /\ Succeeded(i) => Matches[i].analysis = <<last[i][2]>>

\* the second of three audits failed on an exception that is not retried, the
\* other two succeeded
C3_Witness ==
    /\ Responded /\ StoreAvailable
    /\ Len(docs) = 3
    /\ last[2] = Raised("Exception")
    /\ Succeeded(1) /\ Succeeded(3)

\* C4: the waits between attempts are non-decreasing and within
\* [WaitMin, WaitMax], there is one wait per retry, no audit makes a 6th
\* attempt, and an audit whose every call failed with a transient error ends
\* after exactly 5 attempts (4 waits) with a failure-marked analysis.
C4_FiveAttemptsOnTransient ==
    \A i \in 1..Len(audit) :
        /\ audit[i].attempt <= 5
        /\ NonDecreasing(audit[i].waits)
        /\ \A m \in 1..Len(audit[i].waits) :
              audit[i].waits[m] >= 2 /\ audit[i].waits[m] <= 10
        /\ audit[i].st \in {"calling", "done"} =>
              Len(audit[i].waits) = audit[i].attempt - 1
        /\ audit[i].st = "sleeping" => Len(audit[i].waits) = audit[i].attempt
        /\ (audit[i].st = "done" /\ audit[i].allTransient) =>
              /\ audit[i].attempt = 5
              /\ Len(audit[i].waits) = 4
              /\ Len(results) >= i
              /\ Head(results[i].analysis) = ErrorMarker

C4_Witness ==
    \E i \in 1..Len(audit) :
        /\ audit[i].st = "done" /\ audit[i].allTransient
        /\ audit[i].waits = <<2, 2, 4, 8>>

\* C5: a permanent failure of the reasoning service is not retried: tenacity
\* never sleeps on it, and the audit it ends has made a single attempt.
C5_PermanentNotRetried ==
    \A i \in 1..Len(audit) :
        (Failed(i) /\ IsPermanent(last[i][2])) =>
            /\ audit[i].st # "sleeping"
            /\ audit[i].st = "done" => audit[i].attempt = 1

\* C6: with the store not loaded the request is answered 500 at once:
\* retrieve_trials is not called, no call of the reasoning service is
\* issued, and the response has no matches array.
C6_StoreUnavailable ==
    (phase \in {"auditing", "responded"} /\ ~StoreAvailable) =>
        /\ Responded
        /\ response.status = 500
        /\ "matches" \notin DOMAIN response.body
        /\ ~retrieved
        /\ audit = <<>> /\ results = <<>>

C6_Witness == Responded /\ ~StoreAvailable /\ response.status = 500

C8_NctId ==
    (Responded /\ StoreAvailable) =>
        \A i \in 1..Len(Matches) :
            LET md == Metadata(docs[i]) IN
            /\ "nct_id" \in DOMAIN md =>
                  Matches[i].nct_id = md.nct_id /\ Matches[i].nct_id # ""
            /\ "nct_id" \notin DOMAIN md => Matches[i].nct_id = "N/A"

\* a failed audit of a document without nct_id and a successful one of a
\* document with it, and the other way round
C8_Witness ==
    /\ Responded /\ StoreAvailable
    /\ \E i, j \in 1..Len(Matches) :
        /\ "nct_id" \notin DOMAIN Metadata(docs[i]) /\ Failed(i)
        /\ "nct_id" \in DOMAIN Metadata(docs[j]) /\ Succeeded(j)
        /\ Matches[i].nct_id = "N/A" /\ Matches[j].nct_id = "NCT005"

EtlFailure ==
    \/ http.kind # "studies"
    \/ \E n \in 1..Len(http.studies) : StudyRaises(http.studies[n])

\* C9: fetch_trials returns a list and does not raise; every element has
\* exactly the fields nct_id, title and summary, with the placeholder where
\* the study lacks the field and the study's value where it has it; after a
\* request or parsing failure the list is empty, whatever was collected.
C9_FetchReturnsList ==
    etl_pc = "returned" =>
        /\ etl_ret.kind = "list"
        /\ \A n \in 1..Len(etl_ret.value) :
              DOMAIN etl_ret.value[n] = {"nct_id", "title", "summary"}
        /\ EtlFailure => etl_ret.value = <<>>
        /\ ~EtlFailure =>
              /\ Len(etl_ret.value) = Len(http.studies)
              /\ \A n \in 1..Len(http.studies) :
                    LET p == Get(http.studies[n], "protocolSection", EmptyDict)
                        id == Get(p, "identificationModule", EmptyDict)
                        de == Get(p, "descriptionModule", EmptyDict)
                        t == etl_ret.value[n]
                    IN
                    /\ t.nct_id = IF "nctId" \in DOMAIN id THEN id.nctId ELSE "Unknown"
                    /\ t.title = IF "briefTitle" \in DOMAIN id THEN id.briefTitle
                                 ELSE "Untitled"
                    /\ t.summary = IF "briefSummary" \in DOMAIN de THEN de.briefSummary
                                   ELSE "No summary available"

\* the third study is malformed after two trials were collected
C9_Witness ==
    /\ etl_pc = "returned"
    /\ Len(trials) = 2
    /\ http.kind = "studies" /\ Len(http.studies) = 3
    /\ etl_ret = ReturnList(<<>>)


\* C10: every request that starts auditing is eventually answered with one
\* terminal outcome per retrieved candidate, each after 1 to 5 attempts, so
\* after at most 5*K calls of the reasoning service; and no audit ever makes
\* more than 5 attempts.
C10_Aggregated ==
    /\ [](\A i \in 1..Len(audit) : audit[i].attempt <= 5)
    /\ (phase = "auditing") ~>
          (/\ Responded
           /\ response.status = 200
           /\ Len(Matches) = Len(docs)
           /\ \A i \in 1..Len(docs) :
                /\ audit[i].st = "done"
                /\ Failed(i) \/ Succeeded(i)
                /\ audit[i].attempt >= 1 /\ audit[i].attempt <= 5
           /\ SumAttempts(Len(audit)) <= 5 * K)

C10_Witness ==
    /\ Responded /\ StoreAvailable
    /\ Len(docs) = K
    /\ SumAttempts(Len(audit)) = 5 * K

BuiltIndexLoaded == vector_db.loaded /\ saved_index.saved

\* C11: retrieve_trials returns only documents of the index whose metadata
\* has is_us_trial set to True itself, never one without the flag; so with
\* an index saved by build_vector_database, whose documents carry only nct_id
\* and title, no audit is ever started and every request is answered 200
\* with the empty matches array.
C11_OnlyUsTrialsRetrieved ==
    /\ \A i \in 1..Len(docs) :
          /\ docs[i] \in vector_db.index
          /\ "is_us_trial" \in DOMAIN Metadata(docs[i])
          /\ Metadata(docs[i]).is_us_trial = "True"
    /\ BuiltIndexLoaded =>
          /\ \A d \in vector_db.index :
                DOMAIN Metadata(d) = {"nct_id", "title"}
          /\ phase # "auditing"
          /\ docs = <<>> /\ audit = <<>> /\ results = <<>>
          /\ Responded =>
                /\ retrieved
                /\ response.status = 200
                /\ Matches = <<>>

\* a request was answered from an index of three documents saved by the job
C11_Witness ==
    /\ Responded /\ BuiltIndexLoaded
    /\ Cardinality(vector_db.index) = 3
    /\ retrieved
    /\ response = Ok(<<>>)

====
